---- MODULE Spec2Model ----
(***************************************************************************)
(* A model of the Short-Squeeze-Screener scripts:                          *)
(*   get_all_financial_data.py  the bulk fetch on a thread pool            *)
(*   live_stock_analyzer.py     the interactive single-ticker lookup       *)
(*   catalyst_hunter.py         the news aggregator                        *)
(*                                                                         *)
(* Python values are tagged records, strings are sequences of letters (a   *)
(* label of the Finviz table counts as one letter), dicts are functions    *)
(* from keys to values.  A piece of code that may raise evaluates to Ok(v) *)
(* or Raise(e); try/except is an operator over that outcome.  Fractions    *)
(* are fixed-point integers, with the unit named where they appear.        *)
(***************************************************************************)
EXTENDS Integers, Sequences, FiniteSets, TLC

\* ------------------------------------------------------------- bounds
\* Rows read from each ticker CSV.
MaxRows == 1
\* Size of the worker pool.  The source has max_workers=50
\* (get_all_financial_data.py:124); the model runs the same pool with fewer
\* workers, so that runs with more tickers than workers are explored.
max_workers == 2
\* Entries typed at the live analyzer's prompt.
MaxPrompts == 2
\* Links / articles of a news response enumerated exhaustively.
MaxItems == 2

\* ------------------------------------------------------ Python values
PyNone == [py |-> "None"]
PyNum(n) == [py |-> "num", num |-> n]
PyStr(s) == [py |-> "str", str |-> s]
PyDict(d) == [py |-> "dict", dict |-> d]

IsNone(v) == v.py = "None"

\* Python's truth value of an object, as `if x:` / `not x` use it.
Truthy(v) ==
    CASE v.py = "None" -> FALSE
      [] v.py = "num" -> v.num # 0
      [] v.py = "str" -> v.str # <<>>
      [] v.py = "dict" -> DOMAIN v.dict # {}

Ok(v) == [ok |-> v]
Raise(e) == [exc |-> e]
IsExc(r) == "exc" \in DOMAIN r

\* try: body / except Exception: return None.  The outcome of the whole
\* function: what the body returned, or None where the body raised.
ExceptReturnNone(r) == IF IsExc(r) THEN Ok(PyNone) ELSE r

\* dict.get(key, default)
Get(d, k, default) == IF k \in DOMAIN d THEN d[k] ELSE default

EmptyDict == [k \in {} |-> PyNone]

\* ------------------------------------------------------------ strings
Upper(c) ==
    CASE c = "a" -> "A" [] c = "b" -> "B" [] c = "c" -> "C"
      [] c = "e" -> "E" [] c = "i" -> "I" [] c = "k" -> "K"
      [] c = "m" -> "M" [] c = "q" -> "Q" [] c = "t" -> "T"
      [] c = "u" -> "U" [] c = "x" -> "X" [] c = "z" -> "Z"
      [] OTHER -> c

\* str.upper()
StrUpper(s) == [i \in 1..Len(s) |-> Upper(s[i])]

IsSpace(c) == c = " "

RECURSIVE LStrip(_)
LStrip(s) == IF s # <<>> /\ IsSpace(Head(s)) THEN LStrip(Tail(s)) ELSE s

RECURSIVE RStrip(_)
RStrip(s) ==
    IF s # <<>> /\ IsSpace(s[Len(s)]) THEN RStrip(SubSeq(s, 1, Len(s) - 1)) ELSE s

\* str.strip()
Strip(s) == RStrip(LStrip(s))

\* c in s
Contains(s, c) == \E i \in 1..Len(s) : s[i] = c

\* s.replace(c, '')
RECURSIVE Remove(_, _)
Remove(s, c) ==
    IF s = <<>> THEN <<>>
    ELSE IF Head(s) = c THEN Remove(Tail(s), c)
    ELSE <<Head(s)>> \o Remove(Tail(s), c)

Digit(c) ==
    CASE c = "0" -> 0 [] c = "1" -> 1 [] c = "2" -> 2 [] c = "5" -> 5
      [] OTHER -> -1

RECURSIVE DigitsValue(_)
DigitsValue(s) ==
    IF s = <<>> THEN 0 ELSE 10 * DigitsValue(SubSeq(s, 1, Len(s) - 1)) + Digit(s[Len(s)])

\* float(s) on the unsigned whole numbers the model's pages hold; any other
\* text raises ValueError.
Float(s) ==
    IF s # <<>> /\ \A i \in 1..Len(s) : Digit(s[i]) >= 0
    THEN Ok(DigitsValue(s))
    ELSE Raise("ValueError")

\* All sequences over S of length at most n.
RECURSIVE SeqUpTo(_, _)
SeqUpTo(S, n) ==
    IF n = 0 THEN {<<>>}
    ELSE LET shorter == SeqUpTo(S, n - 1)
         IN shorter \cup {Append(s, x) : s \in {q \in shorter : Len(q) = n - 1}, x \in S}

\* The elements of a sequence.
Range(s) == {s[i] : i \in 1..Len(s)}

\* All orderings of a finite set, each element once.
RECURSIVE Perms(_)
Perms(S) ==
    IF S = {} THEN {<<>>}
    ELSE UNION {{<<x>> \o p : p \in Perms(S \ {x})} : x \in S}

\* ------------------------------------------------- provider responses
\* What yfinance gives for a ticker: Ticker(...).info raises, or is a dict.
\* shortPercentOfFloat is a fraction counted in millionths; the other
\* numbers are whole.
YF_OTHERS ==
    { EmptyDict,
      [k \in {"shortRatio", "marketCap", "currentPrice", "averageDailyVolume10Day"}
          |-> PyNum(3)],
      [k \in {"shortRatio", "previousClose"} |-> PyNum(4)] }

YF_SHORT == {PyNone, PyNum(0), PyNum(123450), PyStr(<<"n", "/", "a">>)}
YF_FLOAT == {PyNone, PyNum(0), PyNum(5000)}

WithKey(d, k, v) == [x \in DOMAIN d \cup {k} |-> IF x = k THEN v ELSE d[x]]

\* Every presence and value of the two required fields over the bare dict, and
\* every variant of the other fields with both required fields good.
YF_INFOS ==
    LET withShort == {EmptyDict} \cup
                     {WithKey(EmptyDict, "shortPercentOfFloat", v) : v \in YF_SHORT}
        required == withShort \cup
                    {WithKey(d, "floatShares", v) : d \in withShort, v \in YF_FLOAT}
    IN required \cup
       {WithKey(WithKey(d, "shortPercentOfFloat", PyNum(123450)),
                "floatShares", PyNum(5000)) : d \in YF_OTHERS}

YFinanceResponses ==
    {[raises |-> TRUE, info |-> EmptyDict]} \cup
    {[raises |-> FALSE, info |-> d] : d \in YF_INFOS}

\* What Finviz gives for a quote page: the request fails, or a status and a
\* page; the page has a snapshot table or not, the table has rows of <td>
\* texts.
FV_ROWS ==
    { <<>>,
      << <<>> >>,
      << << <<"Short Float">>, <<"2", "5", "%">>, <<"Shs Float">>, <<"5", "M">> >>,
         << <<"Short Ratio">>, <<"2">>, <<"Price">>, <<"1">> >> >>,
      << << <<"Short Float">>, <<"-">>, <<"Shs Float">>, <<"-">> >> >>,
      << << <<"Short Float">>, <<"x">> >> >> }

FinvizResponses ==
    {[net |-> "error", status |-> 0, has_table |-> FALSE, rows |-> <<>>]} \cup
    {[net |-> "ok", status |-> 404, has_table |-> FALSE, rows |-> <<>>],
     [net |-> "ok", status |-> 200, has_table |-> FALSE, rows |-> <<>>]} \cup
    {[net |-> "ok", status |-> 200, has_table |-> TRUE, rows |-> r] : r \in FV_ROWS}

\* ---------------------------------------------------- library pieces
\* round(x * 100, 2) for x in millionths: hundredths of a percent, ties to even.
RoundPercent(x) ==
    LET q == x \div 100
        r == x % 100
    IN IF r > 50 \/ (r = 50 /\ q % 2 = 1) THEN q + 1 ELSE q

\* bs4 Tag.__getitem__(key): the tag's attribute named key, KeyError when the
\* tag has none.  Attribute names are strings, so an integer key finds none.
TagGetItemInt(tag, i) == Raise("KeyError")

\* The (row, index) pairs the comprehension visits: every even index (from 0)
\* of every row's <td> list.
EvenCells(rows) ==
    UNION {{<<r, i>> : i \in {k \in 0..(Len(rows[r]) - 1) : k % 2 = 0}} :
              r \in 1..Len(rows)}

\* ------------------------------------------------ a call in progress
\* A call of fetch_stock_data(ticker); in the bulk script, the future of
\* executor.submit(fetch_stock_data, ticker).
NewFuture(ticker) ==
    [ticker |-> ticker, st |-> "pending", calls |-> <<>>, result |-> Ok(PyNone)]

\* One provider call as observed: which provider, for which ticker, whether
\* its try block raised, and what the provider function gave back.
Call(provider, ticker, try, outcome) ==
    [provider |-> provider, ticker |-> ticker, raised |-> IsExc(try),
     outcome |-> outcome]

\* ------------------------------------- get_all_financial_data.py fetch
parse_finviz_number(val_str) ==
    IF val_str = <<"-">> THEN Ok(0)
    ELSE LET s == Remove(StrUpper(val_str), "%")
             scaled(c, f) == LET x == Float(Remove(s, c))
                             IN IF IsExc(x) THEN x ELSE Ok(x.ok * f)
         IN IF Contains(s, "B") THEN scaled("B", 10^9)
            ELSE IF Contains(s, "M") THEN scaled("M", 10^6)
            ELSE IF Contains(s, "K") THEN scaled("K", 10^3)
            ELSE Float(s)

\* data = {cols[i].text.strip(): cols[i+1].text.strip() for row ... for i, cols
\* in enumerate(row.find_all('td')) if i % 2 == 0}: enumerate binds cols to one
\* <td> tag, so cols[i] is the tag's attribute i.
finviz_snapshot(rows) ==
    IF \E c \in EvenCells(rows) : IsExc(TagGetItemInt(rows[c[1]][c[2] + 1], c[2]))
    THEN Raise("KeyError")
    ELSE Ok(EmptyDict)

finviz_record(ticker, data) ==
    LET num(k) == parse_finviz_number(Get(data, k, <<"0">>))
        short_percent == num("Short Float")
        float_shares == num("Shs Float")
        rest == {"Short Ratio", "Market Cap", "Price", "Avg Volume"}
    IN IF IsExc(short_percent) THEN short_percent
       ELSE IF IsExc(float_shares) THEN float_shares
       ELSE IF short_percent.ok = 0 \/ float_shares.ok = 0 THEN Ok(PyNone)
       ELSE IF \E k \in rest : IsExc(num(k)) THEN Raise("ValueError")
       ELSE Ok(PyDict([k \in {"Ticker", "ShortInterestPercent", "DaysToCover",
                              "Float_Shares", "MarketCap", "CurrentPrice",
                              "AvgVolume10Day"} |->
              CASE k = "Ticker" -> PyStr(ticker)
                [] k = "ShortInterestPercent" -> PyNum(short_percent.ok)
                [] k = "DaysToCover" -> PyNum(num("Short Ratio").ok)
                [] k = "Float_Shares" -> PyNum(float_shares.ok)
                [] k = "MarketCap" -> PyNum(num("Market Cap").ok)
                [] k = "CurrentPrice" -> PyNum(num("Price").ok)
                [] k = "AvgVolume10Day" -> PyNum(num("Avg Volume").ok)]))

\* The body of fetch_data_with_finviz's try block.
finviz_try(ticker, resp) ==
    IF resp.net = "error" THEN Raise("RequestException")
    ELSE IF resp.status >= 400 THEN Raise("HTTPError")
    ELSE IF ~resp.has_table THEN Ok(PyNone)
    ELSE LET data == finviz_snapshot(resp.rows)
         IN IF IsExc(data) THEN data ELSE finviz_record(ticker, data.ok)

\* Mutant: no try/except around the body.
fetch_data_with_finviz_uncaught(ticker, resp) == finviz_try(ticker, resp)

fetch_data_with_finviz(ticker, resp) == ExceptReturnNone(finviz_try(ticker, resp))

\* The body of fetch_data_with_yfinance's try block.
yfinance_try(ticker, resp) ==
    IF resp.raises THEN Raise("Exception")
    ELSE LET info == resp.info
             short_percent == Get(info, "shortPercentOfFloat", PyNone)
             float_shares == Get(info, "floatShares", PyNone)
         IN IF IsNone(short_percent) \/ IsNone(float_shares) \/ float_shares = PyNum(0)
            THEN Ok(PyNone)
            ELSE IF short_percent.py # "num" THEN Raise("TypeError")
            ELSE Ok(PyDict([k \in {"Ticker", "ShortInterestPercent", "DaysToCover",
                                   "Float_Shares", "MarketCap", "CurrentPrice",
                                   "AvgVolume10Day"} |->
              CASE k = "Ticker" -> PyStr(ticker)
                [] k = "ShortInterestPercent" -> PyNum(RoundPercent(short_percent.num))
                [] k = "DaysToCover" -> Get(info, "shortRatio", PyNum(0))
                [] k = "Float_Shares" -> float_shares
                [] k = "MarketCap" -> Get(info, "marketCap", PyNum(0))
                [] k = "CurrentPrice" ->
                       Get(info, "currentPrice", Get(info, "previousClose", PyNum(0)))
                [] k = "AvgVolume10Day" -> Get(info, "averageDailyVolume10Day", PyNum(0))]))

fetch_data_with_yfinance(ticker, resp) == ExceptReturnNone(yfinance_try(ticker, resp))

\* Mutant: `return data` without the test.
primary_accepted_untested(data) == TRUE

\* `if data: return data` of fetch_stock_data: TRUE when the primary's result
\* is returned, FALSE when the fallback is called.
primary_accepted(data) == Truthy(data)

\* Line 110 and the test of line 111, on the future running the call: the
\* primary is called; its record (or an exception) ends the call, anything
\* else leads to the fallback.
fetch_step_primary(fut, resp) ==
    LET data == fetch_data_with_yfinance(fut.ticker, resp)
        call == Call("yfinance", fut.ticker, yfinance_try(fut.ticker, resp), data)
        ends == IsExc(data) \/ primary_accepted(data.ok)
    IN [fut EXCEPT !.calls = Append(@, call),
                   !.st = IF ends THEN "finished" ELSE "fallback",
                   !.result = IF ends THEN data ELSE @]

\* Line 114: the fallback is called and its outcome is the call's.
fetch_step_fallback(fut, resp) ==
    LET data == fetch_data_with_finviz(fut.ticker, resp)
        call == Call("finviz", fut.ticker, finviz_try(fut.ticker, resp), data)
    IN [fut EXCEPT !.calls = Append(@, call), !.st = "finished", !.result = data]

\* fetch_stock_data(ticker) run to its end: the calls made and the outcome.
fetch_stock_data(ticker, yresp, fresp) ==
    LET f1 == fetch_step_primary(NewFuture(ticker), yresp)
    IN IF f1.st = "fallback" THEN fetch_step_fallback(f1, fresp) ELSE f1

\* -------------------------------- live_stock_analyzer.py fetch (lines 9-54)
live_parse_finviz_number(val_str) ==
    IF val_str = <<"-">> THEN Ok(0)
    ELSE LET s == Remove(StrUpper(val_str), "%")
             scaled(c, f) == LET x == Float(Remove(s, c))
                             IN IF IsExc(x) THEN x ELSE Ok(x.ok * f)
         IN IF Contains(s, "B") THEN scaled("B", 10^9)
            ELSE IF Contains(s, "M") THEN scaled("M", 10^6)
            ELSE IF Contains(s, "K") THEN scaled("K", 10^3)
            ELSE Float(s)

\* data = {cols[i].text.strip(): cols[i+1].text.strip() for row ... for i, cols
\* in enumerate(row.find_all('td')) if i % 2 == 0}: enumerate binds cols to one
\* <td> tag, so cols[i] is the tag's attribute i.
live_finviz_snapshot(rows) ==
    IF \E c \in EvenCells(rows) : IsExc(TagGetItemInt(rows[c[1]][c[2] + 1], c[2]))
    THEN Raise("KeyError")
    ELSE Ok(EmptyDict)

live_finviz_record(ticker, data) ==
    LET num(k) == live_parse_finviz_number(Get(data, k, <<"0">>))
        short_percent == num("Short Float")
        float_shares == num("Shs Float")
        rest == {"Short Ratio", "Market Cap", "Price", "Avg Volume"}
    IN IF IsExc(short_percent) THEN short_percent
       ELSE IF IsExc(float_shares) THEN float_shares
       ELSE IF short_percent.ok = 0 \/ float_shares.ok = 0 THEN Ok(PyNone)
       ELSE IF \E k \in rest : IsExc(num(k)) THEN Raise("ValueError")
       ELSE Ok(PyDict([k \in {"Ticker", "ShortInterestPercent", "DaysToCover",
                              "Float_Shares", "MarketCap", "CurrentPrice",
                              "AvgVolume10Day"} |->
              CASE k = "Ticker" -> PyStr(ticker)
                [] k = "ShortInterestPercent" -> PyNum(short_percent.ok)
                [] k = "DaysToCover" -> PyNum(num("Short Ratio").ok)
                [] k = "Float_Shares" -> PyNum(float_shares.ok)
                [] k = "MarketCap" -> PyNum(num("Market Cap").ok)
                [] k = "CurrentPrice" -> PyNum(num("Price").ok)
                [] k = "AvgVolume10Day" -> PyNum(num("Avg Volume").ok)]))

\* The body of fetch_data_with_finviz's try block.
live_finviz_try(ticker, resp) ==
    IF resp.net = "error" THEN Raise("RequestException")
    ELSE IF resp.status >= 400 THEN Raise("HTTPError")
    ELSE IF ~resp.has_table THEN Ok(PyNone)
    ELSE LET data == live_finviz_snapshot(resp.rows)
         IN IF IsExc(data) THEN data ELSE live_finviz_record(ticker, data.ok)

live_fetch_data_with_finviz(ticker, resp) == ExceptReturnNone(live_finviz_try(ticker, resp))

\* Mutant: the copy lets a float of zero through.
live_yfinance_try_zero_float(ticker, resp) ==
    IF resp.raises THEN Raise("Exception")
    ELSE LET info == resp.info
             short_percent == Get(info, "shortPercentOfFloat", PyNone)
             float_shares == Get(info, "floatShares", PyNone)
         IN IF IsNone(short_percent) \/ IsNone(float_shares)
            THEN Ok(PyNone)
            ELSE IF short_percent.py # "num" THEN Raise("TypeError")
            ELSE Ok(PyDict([k \in {"Ticker", "ShortInterestPercent", "DaysToCover",
                                   "Float_Shares", "MarketCap", "CurrentPrice",
                                   "AvgVolume10Day"} |->
              CASE k = "Ticker" -> PyStr(ticker)
                [] k = "ShortInterestPercent" -> PyNum(RoundPercent(short_percent.num))
                [] k = "DaysToCover" -> Get(info, "shortRatio", PyNum(0))
                [] k = "Float_Shares" -> float_shares
                [] k = "MarketCap" -> Get(info, "marketCap", PyNum(0))
                [] k = "CurrentPrice" ->
                       Get(info, "currentPrice", Get(info, "previousClose", PyNum(0)))
                [] k = "AvgVolume10Day" -> Get(info, "averageDailyVolume10Day", PyNum(0))]))

\* The body of fetch_data_with_yfinance's try block.
live_yfinance_try(ticker, resp) ==
    IF resp.raises THEN Raise("Exception")
    ELSE LET info == resp.info
             short_percent == Get(info, "shortPercentOfFloat", PyNone)
             float_shares == Get(info, "floatShares", PyNone)
         IN IF IsNone(short_percent) \/ IsNone(float_shares) \/ float_shares = PyNum(0)
            THEN Ok(PyNone)
            ELSE IF short_percent.py # "num" THEN Raise("TypeError")
            ELSE Ok(PyDict([k \in {"Ticker", "ShortInterestPercent", "DaysToCover",
                                   "Float_Shares", "MarketCap", "CurrentPrice",
                                   "AvgVolume10Day"} |->
              CASE k = "Ticker" -> PyStr(ticker)
                [] k = "ShortInterestPercent" -> PyNum(RoundPercent(short_percent.num))
                [] k = "DaysToCover" -> Get(info, "shortRatio", PyNum(0))
                [] k = "Float_Shares" -> float_shares
                [] k = "MarketCap" -> Get(info, "marketCap", PyNum(0))
                [] k = "CurrentPrice" ->
                       Get(info, "currentPrice", Get(info, "previousClose", PyNum(0)))
                [] k = "AvgVolume10Day" -> Get(info, "averageDailyVolume10Day", PyNum(0))]))

live_fetch_data_with_yfinance(ticker, resp) == ExceptReturnNone(live_yfinance_try(ticker, resp))

\* `if data: return data` of fetch_stock_data: TRUE when the primary's result
\* is returned, FALSE when the fallback is called.
live_primary_accepted(data) == Truthy(data)

\* Line 51 and the test of line 52, on the future running the call: the
\* primary is called; its record (or an exception) ends the call, anything
\* else leads to the fallback.
live_fetch_step_primary(fut, resp) ==
    LET data == live_fetch_data_with_yfinance(fut.ticker, resp)
        call == Call("yfinance", fut.ticker, live_yfinance_try(fut.ticker, resp), data)
        ends == IsExc(data) \/ live_primary_accepted(data.ok)
    IN [fut EXCEPT !.calls = Append(@, call),
                   !.st = IF ends THEN "finished" ELSE "fallback",
                   !.result = IF ends THEN data ELSE @]

\* Line 54: the fallback is called and its outcome is the call's.
live_fetch_step_fallback(fut, resp) ==
    LET data == live_fetch_data_with_finviz(fut.ticker, resp)
        call == Call("finviz", fut.ticker, live_finviz_try(fut.ticker, resp), data)
    IN [fut EXCEPT !.calls = Append(@, call), !.st = "finished", !.result = data]

\* fetch_stock_data(ticker) run to its end: the calls made and the outcome.
live_fetch_stock_data(ticker, yresp, fresp) ==
    LET f1 == live_fetch_step_primary(NewFuture(ticker), yresp)
    IN IF f1.st = "fallback" THEN live_fetch_step_fallback(f1, fresp) ELSE f1

\* ------------------------------------------------- ticker CSV files
\* A CSV cell: text, or NaN (an empty cell).
Cell(s) == [nan |-> FALSE, s |-> s]
NaN == [nan |-> TRUE, s |-> <<>>]

\* A CSV file on disk: present or not, readable by pandas or not, and its
\* columns by name.
CsvFiles(column, cells) ==
    {[exists |-> FALSE, readable |-> FALSE, cols |-> EmptyDict],
     [exists |-> TRUE, readable |-> FALSE, cols |-> EmptyDict],
     [exists |-> TRUE, readable |-> TRUE, cols |-> EmptyDict]} \cup
    {[exists |-> TRUE, readable |-> TRUE, cols |-> [k \in {column} |-> rows]] :
        rows \in SeqUpTo(cells, MaxRows)}

BulkCells == {Cell(<<"A">>), Cell(<<"B">>), Cell(<<"C">>), Cell(<<"A", "$">>), NaN}

\* The three files the scripts read.
TickerFiles(cells) ==
    [nasdaq : CsvFiles("Symbol", cells),
     nyse : CsvFiles("ACT Symbol", cells),
     other : CsvFiles("ACT Symbol", cells)]

\* pd.read_csv(f) then df.dropna(subset=[column]) and the '$' filter of
\* get_tickers_from_local_files, to a list.
listed_tickers(file, column) ==
    IF ~file.readable THEN Raise("ParserError")
    ELSE IF column \notin DOMAIN file.cols THEN Raise("KeyError")
    ELSE LET keep(c) == ~c.nan /\ ~Contains(c.s, "$")
             kept == SelectSeq(file.cols[column], keep)
         IN Ok([i \in 1..Len(kept) |-> kept[i].s])

\* list(set(combined_list)) then random.shuffle: any order of the distinct
\* symbols.
unique_shuffled(combined_list) == Perms(Range(combined_list))

\* get_tickers_from_local_files(): the possible (printed lines, returned list).
get_tickers_from_local_files(files) ==
    IF ~(files.nasdaq.exists /\ files.nyse.exists /\ files.other.exists)
    THEN {[out |-> <<"Reading master ticker list", "ERROR could not find files">>,
           ret |-> <<>>]}
    ELSE LET nasdaq_tickers == listed_tickers(files.nasdaq, "Symbol")
             nyse_tickers == listed_tickers(files.nyse, "ACT Symbol")
             other_tickers == listed_tickers(files.other, "ACT Symbol")
         IN IF IsExc(nasdaq_tickers) \/ IsExc(nyse_tickers) \/ IsExc(other_tickers)
            THEN {[out |-> <<"Reading master ticker list", "An error occurred">>,
                   ret |-> <<>>]}
            ELSE {[out |-> <<"Reading master ticker list", "Successfully loaded">>,
                   ret |-> u] :
                    u \in unique_shuffled(nasdaq_tickers.ok \o nyse_tickers.ok
                                          \o other_tickers.ok)}

\* --------------------------------- get_all_financial_data.py __main__
VARIABLES
    pc,              \* where the main thread is
    all_tickers,     \* the list get_tickers_from_local_files returned
    futures,         \* the futures submitted, in submission order
    yielded,         \* the futures as_completed has handed to the loop
    all_stock_data,  \* the collected table
    csv,             \* the output file
    stdout           \* the lines printed

\* live_stock_analyzer.py main()
VARIABLES
    lpc,                \* where main() is
    master_ticker_set,  \* what load_master_ticker_list returned
    peer_group,         \* the peer group read from the latest data file
    prompts,            \* entries read so far
    ticker,             \* the entry, stripped and upper-cased
    live_data,          \* what the last lookup returned
    lookups,            \* every fetch_stock_data call made, with its result
    scores              \* every squeeze score computed

\* catalyst_hunter.py get_all_news()
VARIABLES
    npc,                \* where get_all_news is
    google_task,        \* the Google News coroutine
    marketaux_task,     \* the MarketAux call in the executor
    news                \* what get_all_news returned

\* Both fetch_stock_data functions run on one ticker and one pair of responses.
VARIABLES
    fetch_in,           \* the ticker and the providers' responses
    bulk_run,           \* get_all_financial_data.fetch_stock_data
    live_run            \* live_stock_analyzer.fetch_stock_data

bulkVars == <<pc, all_tickers, futures, yielded, all_stock_data, csv, stdout>>
liveVars ==
    <<lpc, master_ticker_set, peer_group, prompts, ticker, live_data, lookups, scores>>
newsVars == <<npc, google_task, marketaux_task, news>>
fetchVars == <<fetch_in, bulk_run, live_run>>
vars == <<bulkVars, liveVars, newsVars, fetchVars>>

Columns ==
    {"Ticker", "ShortInterestPercent", "DaysToCover", "Float_Shares", "MarketCap",
     "CurrentPrice", "AvgVolume10Day"}

Running == {i \in 1..Len(futures) : futures[i].st \in {"primary", "fallback"}}
Pending == {i \in 1..Len(futures) : futures[i].st = "pending"}
Finished == {i \in 1..Len(futures) : futures[i].st = "finished"}

BulkInit ==
    /\ pc = "load"
    /\ all_tickers = <<>>
    /\ futures = <<>>
    /\ yielded = {}
    /\ all_stock_data = <<>>
    /\ csv = [written |-> FALSE, rows |-> <<>>]
    /\ stdout = <<>>

\* Lines 117-122: load the tickers; leave when there are none.
LoadTickers ==
    /\ pc = "load"
    /\ \E files \in TickerFiles(BulkCells) :
         \E r \in get_tickers_from_local_files(files) :
            /\ all_tickers' = r.ret
            /\ IF r.ret = <<>>
               THEN /\ pc' = "done"
                    /\ stdout' = r.out \o <<"Could not retrieve ticker list">>
               ELSE /\ pc' = "submit"
                    /\ stdout' = r.out \o <<"Starting Bulk Data Fetch">>
    /\ UNCHANGED <<futures, yielded, all_stock_data, csv>>
    /\ UNCHANGED <<liveVars, newsVars, fetchVars>>

\* Line 125: the dict comprehension submits the next ticker.
Submit ==
    /\ pc = "submit"
    /\ Len(futures) < Len(all_tickers)
    /\ futures' = Append(futures, NewFuture(all_tickers[Len(futures) + 1]))
    /\ pc' = IF Len(futures') = Len(all_tickers) THEN "collect" ELSE "submit"
    /\ UNCHANGED <<all_tickers, yielded, all_stock_data, csv, stdout>>
    /\ UNCHANGED <<liveVars, newsVars, fetchVars>>

\* Mutant: a thread per work item, whatever the pool size.
WorkerStart_unbounded ==
    /\ Pending # {}
    /\ LET i == CHOOSE j \in Pending : \A k \in Pending : j <= k
       IN futures' = [futures EXCEPT ![i].st = "primary"]
    /\ UNCHANGED <<pc, all_tickers, yielded, all_stock_data, csv, stdout>>
    /\ UNCHANGED <<liveVars, newsVars, fetchVars>>

\* A free worker of the pool takes the oldest queued work item.
WorkerStart ==
    /\ Pending # {}
    /\ Cardinality(Running) < max_workers
    /\ LET i == CHOOSE j \in Pending : \A k \in Pending : j <= k
       IN futures' = [futures EXCEPT ![i].st = "primary"]
    /\ UNCHANGED <<pc, all_tickers, yielded, all_stock_data, csv, stdout>>
    /\ UNCHANGED <<liveVars, newsVars, fetchVars>>

\* Lines 110-112 in a worker: the primary provider answers.
WorkerPrimary(i) ==
    /\ futures[i].st = "primary"
    /\ \E resp \in YFinanceResponses :
         futures' = [futures EXCEPT ![i] = fetch_step_primary(@, resp)]
    /\ UNCHANGED <<pc, all_tickers, yielded, all_stock_data, csv, stdout>>
    /\ UNCHANGED <<liveVars, newsVars, fetchVars>>

\* Line 114 in a worker: the fallback provider answers.
WorkerFallback(i) ==
    /\ futures[i].st = "fallback"
    /\ \E resp \in FinvizResponses :
         futures' = [futures EXCEPT ![i] = fetch_step_fallback(@, resp)]
    /\ UNCHANGED <<pc, all_tickers, yielded, all_stock_data, csv, stdout>>
    /\ UNCHANGED <<liveVars, newsVars, fetchVars>>

\* Mutant: the loop appends every result, without `if result:`.
Collect_untested(i) ==
    /\ pc = "collect"
    /\ i \in Finished \ yielded
    /\ yielded' = yielded \cup {i}
    /\ LET result == futures[i].result
       IN IF IsExc(result)
          THEN /\ pc' = "crashed"
               /\ UNCHANGED all_stock_data
          ELSE /\ pc' = pc
               /\ all_stock_data' = Append(all_stock_data, result.ok)
    /\ UNCHANGED <<all_tickers, futures, csv, stdout>>
    /\ UNCHANGED <<liveVars, newsVars, fetchVars>>

\* Lines 127-130: as_completed yields a finished future; future.result()
\* re-raises what the call raised, which would leave the loop and the script.
Collect(i) ==
    /\ pc = "collect"
    /\ i \in Finished \ yielded
    /\ yielded' = yielded \cup {i}
    /\ LET result == futures[i].result
       IN IF IsExc(result)
          THEN /\ pc' = "crashed"
               /\ UNCHANGED all_stock_data
          ELSE /\ pc' = pc
               /\ all_stock_data' = IF Truthy(result.ok)
                                    THEN Append(all_stock_data, result.ok)
                                    ELSE all_stock_data
    /\ UNCHANGED <<all_tickers, futures, csv, stdout>>
    /\ UNCHANGED <<liveVars, newsVars, fetchVars>>

\* Mutant: the banner without waiting for the futures (no as_completed loop
\* to its end, no shutdown wait).
FetchingComplete_unjoined ==
    /\ pc = "collect"
    /\ pc' = "complete"
    /\ stdout' = Append(stdout, "Data Fetching Complete")
    /\ UNCHANGED <<all_tickers, futures, yielded, all_stock_data, csv>>
    /\ UNCHANGED <<liveVars, newsVars, fetchVars>>

\* Lines 124-132: the loop has seen every future, the with block ends (its
\* shutdown waits for the workers) and the script prints the banner.
FetchingComplete ==
    /\ pc = "collect"
    /\ yielded = 1..Len(futures)
    /\ Running = {} /\ Pending = {}
    /\ pc' = "complete"
    /\ stdout' = Append(stdout, "Data Fetching Complete")
    /\ UNCHANGED <<all_tickers, futures, yielded, all_stock_data, csv>>
    /\ UNCHANGED <<liveVars, newsVars, fetchVars>>

\* Lines 133-134.
NothingFound ==
    /\ pc = "complete"
    /\ all_stock_data = <<>>
    /\ pc' = "done"
    /\ stdout' = Append(stdout, "No stocks with valid short squeeze data")
    /\ UNCHANGED <<all_tickers, futures, yielded, all_stock_data, csv>>
    /\ UNCHANGED <<liveVars, newsVars, fetchVars>>

\* Mutant: the file is written without the `if not all_stock_data` test.
WriteCsv_unguarded ==
    /\ pc = "complete"
    /\ csv' = [written |-> TRUE,
               rows |-> [n \in 1..Len(all_stock_data) |->
                            [k \in Columns |-> all_stock_data[n].dict[k]]]]
    /\ pc' = "done"
    /\ stdout' = Append(stdout, "Successfully saved data")
    /\ UNCHANGED <<all_tickers, futures, yielded, all_stock_data>>
    /\ UNCHANGED <<liveVars, newsVars, fetchVars>>

\* Lines 135-145: the table, its seven columns, to_csv.
WriteCsv ==
    /\ pc = "complete"
    /\ all_stock_data # <<>>
    /\ csv' = [written |-> TRUE,
               rows |-> [n \in 1..Len(all_stock_data) |->
                            [k \in Columns |-> all_stock_data[n].dict[k]]]]
    /\ pc' = "done"
    /\ stdout' = Append(stdout, "Successfully saved data")
    /\ UNCHANGED <<all_tickers, futures, yielded, all_stock_data>>
    /\ UNCHANGED <<liveVars, newsVars, fetchVars>>

BulkNext ==
    \/ LoadTickers
    \/ Submit
    \/ WorkerStart
    \/ \E i \in 1..Len(futures) : WorkerPrimary(i)
    \/ \E i \in 1..Len(futures) : WorkerFallback(i)
    \/ \E i \in 1..Len(futures) : Collect(i)
    \/ FetchingComplete
    \/ NothingFound
    \/ WriteCsv


\* ------------------------------------------ live_stock_analyzer.py
LiveCells == {Cell(<<"A">>), Cell(<<"B">>), Cell(<<"Q", "U", "I", "T">>), NaN}

\* What the user may type at the prompt.
Entries ==
    { <<>>, <<" ">>, <<"q", "u", "i", "t">>, <<" ", "E", "x", "i", "t", " ">>,
      <<"Q", "U", "I", "T">>, <<"a">>, <<" ", "A", " ">>, <<"b">>, <<"z">> }

\* Rows of a full_market_data_*.csv file.
PeerRow(t, si, dtc, fl, price) ==
    [Ticker |-> t, ShortInterestPercent |-> si, DaysToCover |-> dtc,
     Float_Shares |-> fl, CurrentPrice |-> price]
P_A == PeerRow(<<"A">>, 2000, 5, 1000, 3)
P_B == PeerRow(<<"B">>, 500, 1, 9000, 4)
P_C == PeerRow(<<"C">>, 900, 2, 4000, 10)
P_Z == PeerRow(<<"Z">>, 100, 9, 7000, 0)

\* A data file: its creation time, whether pandas can read it, whether it has
\* the CurrentPrice column, and its rows.
DataFile(ctime, readable, priced, rows) ==
    [ctime |-> ctime, readable |-> readable, priced |-> priced, rows |-> rows]

\* What glob.glob('full_market_data_*.csv') may find.
DataDirs ==
    { <<>>,
      <<DataFile(1, FALSE, FALSE, <<>>)>>,
      <<DataFile(1, TRUE, FALSE, <<>>)>>,
      <<DataFile(1, TRUE, TRUE, <<>>)>>,
      <<DataFile(1, TRUE, TRUE, <<P_A, P_B>>)>>,
      <<DataFile(1, TRUE, TRUE, <<P_B, P_C, P_Z>>)>>,
      <<DataFile(2, TRUE, TRUE, <<P_A>>), DataFile(1, TRUE, TRUE, <<P_B>>)>>,
      <<DataFile(1, TRUE, TRUE, <<P_A>>), DataFile(2, FALSE, FALSE, <<>>)>> }

\* set(df[column].dropna()) of load_master_ticker_list.
listed_set(file, column) ==
    IF column \notin DOMAIN file.cols THEN Raise("KeyError")
    ELSE Ok({c.s : c \in {x \in Range(file.cols[column]) : ~x.nan}})

\* pd.read_csv(name): the error it raises, or "" when the file is read.
read_csv_error(file) ==
    IF ~file.exists THEN "FileNotFoundError"
    ELSE IF ~file.readable THEN "ParserError"
    ELSE ""

\* load_master_ticker_list(): the three reads in order, then the three columns;
\* only FileNotFoundError is caught.
load_master_ticker_list(files) ==
    LET reads == <<read_csv_error(files.nasdaq), read_csv_error(files.nyse),
                   read_csv_error(files.other)>>
        failed == {i \in 1..3 : reads[i] # ""}
        first == CHOOSE i \in failed : \A j \in failed : i <= j
        nasdaq_tickers == listed_set(files.nasdaq, "Symbol")
        nyse_tickers == listed_set(files.nyse, "ACT Symbol")
        other_tickers == listed_set(files.other, "ACT Symbol")
    IN IF failed # {}
       THEN IF reads[first] = "FileNotFoundError"
            THEN Ok([loaded |-> FALSE, set |-> {}])
            ELSE Raise(reads[first])
       ELSE IF IsExc(nasdaq_tickers) \/ IsExc(nyse_tickers) \/ IsExc(other_tickers)
       THEN Raise("KeyError")
       ELSE Ok([loaded |-> TRUE,
                set |-> nasdaq_tickers.ok \cup nyse_tickers.ok \cup other_tickers.ok])

\* max(list_of_files, key=os.path.getctime): the first file of the newest time.
latest_file(list_of_files) ==
    LET newest == {i \in 1..Len(list_of_files) :
                      \A j \in 1..Len(list_of_files) :
                          list_of_files[j].ctime <= list_of_files[i].ctime}
    IN list_of_files[CHOOSE i \in newest : \A j \in newest : i <= j]

\* Lines 114-126 of main(): the peer group, or the return on FileNotFoundError
\* and ValueError (pandas' ParserError is a ValueError); any other exception
\* leaves main().
load_peer_group(list_of_files) ==
    IF list_of_files = <<>> THEN Ok([loaded |-> FALSE, rows |-> <<>>])
    ELSE LET latest == latest_file(list_of_files)
             cheap(r) == r.CurrentPrice < 5 /\ r.CurrentPrice > 0
         IN IF ~latest.readable THEN Ok([loaded |-> FALSE, rows |-> <<>>])
            ELSE IF ~latest.priced THEN Raise("KeyError")
            ELSE Ok([loaded |-> TRUE, rows |-> SelectSeq(latest.rows, cheap)])

\* The row pd.DataFrame([stock_data]) makes of a fetched record.
stock_row(stock_data) ==
    PeerRow(stock_data.dict["Ticker"].str,
            stock_data.dict["ShortInterestPercent"].num,
            stock_data.dict["DaysToCover"].num,
            stock_data.dict["Float_Shares"].num,
            stock_data.dict["CurrentPrice"].num)

\* drop_duplicates(subset=['Ticker'], keep='last')
drop_duplicates_keep_last(rows) ==
    LET kept == {i \in 1..Len(rows) :
                    \A j \in (i + 1)..Len(rows) : rows[j].Ticker # rows[i].Ticker}
        nth(k) == CHOOSE i \in kept : Cardinality({j \in kept : j <= i}) = k
    IN [k \in 1..Cardinality(kept) |-> rows[nth(k)]]

Max(S) == CHOOSE x \in S : \A y \in S : y <= x
Min(S) == CHOOSE x \in S : \A y \in S : x <= y

\* (x - min) / (max - min), or 0.5 when all are equal; in thousandths.
normalized(x, S) ==
    IF Max(S) - Min(S) > 0 THEN ((x - Min(S)) * 1000) \div (Max(S) - Min(S)) ELSE 500

\* calculate_squeeze_score(stock_data, peer_group_df), in hundredths of a point.
calculate_squeeze_score(stock_data, peer_rows) ==
    IF peer_rows = <<>> THEN 5000
    ELSE LET combined_group ==
                 drop_duplicates_keep_last(Append(peer_rows, stock_row(stock_data)))
             col(name) == {combined_group[i][name] : i \in 1..Len(combined_group)}
             target == CHOOSE i \in 1..Len(combined_group) :
                           combined_group[i].Ticker = stock_data.dict["Ticker"].str
             row == combined_group[target]
             norm_si == normalized(row.ShortInterestPercent, col("ShortInterestPercent"))
             norm_dtc == normalized(row.DaysToCover, col("DaysToCover"))
             norm_float ==
                 IF Max(col("Float_Shares")) - Min(col("Float_Shares")) > 0
                 THEN 1000 - normalized(row.Float_Shares, col("Float_Shares"))
                 ELSE 500
         IN 5 * norm_si + 3 * norm_dtc + 2 * norm_float

LiveInit ==
    /\ lpc = "start"
    /\ master_ticker_set = [loaded |-> FALSE, set |-> {}]
    /\ peer_group = [loaded |-> FALSE, rows |-> <<>>]
    /\ prompts = 0
    /\ ticker = <<>>
    /\ live_data = PyNone
    /\ lookups = <<>>
    /\ scores = <<>>

\* Lines 110-112.
LoadMaster ==
    /\ lpc = "start"
    /\ \E files \in TickerFiles(LiveCells) :
         LET r == load_master_ticker_list(files)
         IN IF IsExc(r)
            THEN lpc' = "crashed" /\ UNCHANGED master_ticker_set
            ELSE /\ master_ticker_set' = r.ok
                 /\ lpc' = IF r.ok.loaded THEN "peer" ELSE "done"
    /\ UNCHANGED <<peer_group, prompts, ticker, live_data, lookups, scores>>
    /\ UNCHANGED <<bulkVars, newsVars, fetchVars>>

\* Lines 114-126.
LoadPeerGroup ==
    /\ lpc = "peer"
    /\ \E dir \in DataDirs :
         LET r == load_peer_group(dir)
         IN IF IsExc(r)
            THEN lpc' = "crashed" /\ UNCHANGED peer_group
            ELSE /\ peer_group' = r.ok
                 /\ lpc' = IF r.ok.loaded THEN "prompt" ELSE "done"
    /\ UNCHANGED <<master_ticker_set, prompts, ticker, live_data, lookups, scores>>
    /\ UNCHANGED <<bulkVars, newsVars, fetchVars>>

QUIT == <<"Q", "U", "I", "T">>
EXIT == <<"E", "X", "I", "T">>

\* Mutant: no validation against the master set.
after_entry_unvalidated(t, master) ==
    IF t \in {QUIT, EXIT} THEN "done"
    ELSE IF t = <<>> THEN "prompt"
    ELSE "lookup"

\* Where the loop goes with an entry: lines 130-138.
after_entry(t, master) ==
    IF t \in {QUIT, EXIT} THEN "done"
    ELSE IF t = <<>> THEN "prompt"
    ELSE IF t \notin master THEN "prompt"
    ELSE "lookup"

\* Lines 129-138: an entry is read, trimmed, upper-cased and validated.
ReadTicker ==
    /\ lpc = "prompt"
    /\ prompts < MaxPrompts
    /\ \E raw \in Entries :
         /\ ticker' = StrUpper(Strip(raw))
         /\ lpc' = after_entry(ticker', master_ticker_set.set)
    /\ prompts' = prompts + 1
    /\ UNCHANGED <<master_ticker_set, peer_group, live_data, lookups, scores>>
    /\ UNCHANGED <<bulkVars, newsVars, fetchVars>>

\* Lines 140-145: the live lookup.
Lookup ==
    /\ lpc = "lookup"
    /\ \E y \in YFinanceResponses, f \in FinvizResponses :
         LET call == live_fetch_stock_data(ticker, y, f)
         IN /\ lookups' = Append(lookups, call)
            /\ IF IsExc(call.result)
               THEN lpc' = "crashed" /\ UNCHANGED live_data
               ELSE /\ live_data' = call.result.ok
                    /\ lpc' = IF Truthy(call.result.ok) THEN "score" ELSE "prompt"
    /\ UNCHANGED <<master_ticker_set, peer_group, prompts, ticker, scores>>
    /\ UNCHANGED <<bulkVars, newsVars, fetchVars>>

\* Lines 147-165: the score is computed, stored in live_data and printed.
Score ==
    /\ lpc = "score"
    /\ LET s == calculate_squeeze_score(live_data, peer_group.rows)
       IN /\ live_data' = PyDict(WithKey(live_data.dict, "SqueezeScore", PyNum(s)))
          /\ scores' = Append(scores, [ticker |-> live_data.dict["Ticker"].str,
                                       score |-> s])
    /\ lpc' = "prompt"
    /\ UNCHANGED <<master_ticker_set, peer_group, prompts, ticker, lookups>>
    /\ UNCHANGED <<bulkVars, newsVars, fetchVars>>

LiveNext == LoadMaster \/ LoadPeerGroup \/ ReadTicker \/ Lookup \/ Score

\* ------------------------------------------------ catalyst_hunter.py
\* headlines[:15] of get_google_news.
GOOGLE_LIMIT == 15

Letters ==
    <<"a", "b", "c", "d", "e", "f", "g", "h", "i", "j", "k", "l", "m", "n", "o",
      "p", "q">>

\* A results page with n links, each with its own text.
ManyLinks(n) == [i \in 1..n |-> <<"t", Letters[i]>>]

LinkTexts == {<<>>, <<" ">>, <<"x">>, <<" ", "y", " ">>, <<"z">>}

\* What the Google News page gives: session.get raises, arender raises, or the
\* texts of the 'h4 > a' links.
GoogleResponses ==
    {[get_raises |-> TRUE, render_raises |-> FALSE, links |-> <<>>],
     [get_raises |-> FALSE, render_raises |-> TRUE, links |-> <<>>]} \cup
    {[get_raises |-> FALSE, render_raises |-> FALSE, links |-> l] :
        l \in SeqUpTo(LinkTexts, MaxItems)
              \cup {ManyLinks(GOOGLE_LIMIT), ManyLinks(GOOGLE_LIMIT + 1),
                    ManyLinks(GOOGLE_LIMIT + 2)}}

\* An article of the MarketAux JSON: a dict with a 'title' or without.
Articles ==
    {[has_title |-> FALSE, title |-> <<>>]} \cup
    {[has_title |-> TRUE, title |-> t] : t \in {<<"x">>, <<"y">>, <<" ", "x">>}}

\* What MarketAux gives: requests.get raises, or a status and a body that is
\* JSON or not, with a 'data' list or without.
MarketauxResponses ==
    {[net |-> "error", status |-> 0, is_json |-> FALSE, has_data |-> FALSE,
      data |-> <<>>],
     [net |-> "ok", status |-> 500, is_json |-> TRUE, has_data |-> FALSE, data |-> <<>>],
     [net |-> "ok", status |-> 200, is_json |-> FALSE, has_data |-> FALSE, data |-> <<>>],
     [net |-> "ok", status |-> 200, is_json |-> TRUE, has_data |-> FALSE, data |-> <<>>]}
    \cup
    {[net |-> "ok", status |-> 200, is_json |-> TRUE, has_data |-> TRUE, data |-> d] :
        d \in SeqUpTo(Articles, MaxItems)}

\* The body of get_marketaux_news_sync's try block.
marketaux_try(resp) ==
    IF resp.net = "error" THEN Raise("RequestException")
    ELSE IF resp.status >= 400 THEN Raise("HTTPError")
    ELSE IF ~resp.is_json THEN Raise("JSONDecodeError")
    ELSE LET articles == IF resp.has_data THEN resp.data ELSE <<>>
         IN IF \E i \in 1..Len(articles) : ~articles[i].has_title
            THEN Raise("KeyError")
            ELSE Ok([i \in 1..Len(articles) |-> articles[i].title])

\* try: ... / except Exception: return []
ExceptReturnEmpty(r) == IF IsExc(r) THEN <<>> ELSE r.ok

get_marketaux_news_sync(resp) == ExceptReturnEmpty(marketaux_try(resp))

RECURSIVE stripped_titles(_)
stripped_titles(links) ==
    IF links = <<>> THEN <<>>
    ELSE LET title == Strip(Head(links))
         IN IF title # <<>> THEN <<title>> \o stripped_titles(Tail(links))
            ELSE stripped_titles(Tail(links))

\* s[:n]
Prefix(s, n) == SubSeq(s, 1, IF Len(s) < n THEN Len(s) ELSE n)

\* The body of get_google_news's try block.
google_try(resp) ==
    IF resp.get_raises THEN Raise("TimeoutError")
    ELSE IF resp.render_raises THEN Raise("TimeoutError")
    ELSE Ok(Prefix(stripped_titles(resp.links), GOOGLE_LIMIT))

get_google_news(resp) == ExceptReturnEmpty(google_try(resp))

\* list(dict.fromkeys(l)): each key once, in the order of first insertion.
RECURSIVE dict_fromkeys(_)
dict_fromkeys(l) ==
    IF l = <<>> THEN <<>>
    ELSE LET front == SubSeq(l, 1, Len(l) - 1)
             last == l[Len(l)]
         IN IF last \in Range(front) THEN dict_fromkeys(front)
            ELSE Append(dict_fromkeys(front), last)

\* Mutant: the lists concatenated the other way round.
combine_headlines_google_first(google_headlines, marketaux_headlines) ==
    LET all_headlines == google_headlines \o marketaux_headlines
    IN IF all_headlines = <<>> THEN <<>> ELSE dict_fromkeys(all_headlines)

\* Lines 61-70 of get_all_news: combine and de-duplicate.
combine_headlines(google_headlines, marketaux_headlines) ==
    LET all_headlines == marketaux_headlines \o google_headlines
    IN IF all_headlines = <<>> THEN <<>> ELSE dict_fromkeys(all_headlines)

NewsInit ==
    /\ npc = "start"
    /\ google_task = [done |-> FALSE, raised |-> FALSE, headlines |-> <<>>]
    /\ marketaux_task = [done |-> FALSE, raised |-> FALSE, headlines |-> <<>>]
    /\ news = <<>>

\* Lines 46-59: the session, the two tasks, and the wait for both.
StartGather ==
    /\ npc = "start"
    /\ npc' = "gather"
    /\ UNCHANGED <<google_task, marketaux_task, news>>
    /\ UNCHANGED <<bulkVars, liveVars, fetchVars>>

\* The Google News coroutine ends.
GoogleReturns ==
    /\ npc = "gather"
    /\ ~google_task.done
    /\ \E resp \in GoogleResponses :
         google_task' = [done |-> TRUE, raised |-> IsExc(google_try(resp)),
                         headlines |-> get_google_news(resp)]
    /\ UNCHANGED <<npc, marketaux_task, news>>
    /\ UNCHANGED <<bulkVars, liveVars, fetchVars>>

\* The MarketAux call in the executor thread ends.
MarketauxReturns ==
    /\ npc = "gather"
    /\ ~marketaux_task.done
    /\ \E resp \in MarketauxResponses :
         marketaux_task' = [done |-> TRUE, raised |-> IsExc(marketaux_try(resp)),
                            headlines |-> get_marketaux_news_sync(resp)]
    /\ UNCHANGED <<npc, google_task, news>>
    /\ UNCHANGED <<bulkVars, liveVars, fetchVars>>

\* Lines 59-73: gather has both results; get_all_news returns.
GatherReturns ==
    /\ npc = "gather"
    /\ google_task.done /\ marketaux_task.done
    /\ news' = combine_headlines(google_task.headlines, marketaux_task.headlines)
    /\ npc' = "done"
    /\ UNCHANGED <<google_task, marketaux_task>>
    /\ UNCHANGED <<bulkVars, liveVars, fetchVars>>

NewsNext == StartGather \/ GoogleReturns \/ MarketauxReturns \/ GatherReturns

\* ------------------------- the two fetch_stock_data functions side by side
FetchTickers == {<<"A">>, <<"B">>}

FetchInit ==
    /\ fetch_in = [chosen |-> FALSE, ticker |-> <<>>,
                   yresp |-> [raises |-> TRUE, info |-> EmptyDict],
                   fresp |-> [net |-> "error", status |-> 0, has_table |-> FALSE,
                              rows |-> <<>>]]
    /\ bulk_run = NewFuture(<<>>)
    /\ live_run = NewFuture(<<>>)

\* A ticker, and what each provider will answer for it.
FetchBegin ==
    /\ ~fetch_in.chosen
    /\ \E t \in FetchTickers, y \in YFinanceResponses, f \in FinvizResponses :
         fetch_in' = [chosen |-> TRUE, ticker |-> t, yresp |-> y, fresp |-> f]
    /\ UNCHANGED <<bulk_run, live_run>>
    /\ UNCHANGED <<bulkVars, liveVars, newsVars>>

\* get_all_financial_data.py fetch_stock_data(ticker)
BulkFetch ==
    /\ fetch_in.chosen
    /\ bulk_run.st = "pending"
    /\ bulk_run' = fetch_stock_data(fetch_in.ticker, fetch_in.yresp, fetch_in.fresp)
    /\ UNCHANGED <<fetch_in, live_run>>
    /\ UNCHANGED <<bulkVars, liveVars, newsVars>>

\* live_stock_analyzer.py fetch_stock_data(ticker)
LiveFetch ==
    /\ fetch_in.chosen
    /\ live_run.st = "pending"
    /\ live_run' = live_fetch_stock_data(fetch_in.ticker, fetch_in.yresp, fetch_in.fresp)
    /\ UNCHANGED <<fetch_in, bulk_run>>
    /\ UNCHANGED <<bulkVars, liveVars, newsVars>>

FetchNext == FetchBegin \/ BulkFetch \/ LiveFetch

Init == BulkInit /\ LiveInit /\ NewsInit /\ FetchInit

BulkSpec == Init /\ [][BulkNext]_vars
BulkFairSpec == BulkSpec /\ WF_vars(BulkNext)
FetchSpec == Init /\ [][FetchNext]_vars
LiveSpec == Init /\ [][LiveNext]_vars
NewsSpec == Init /\ [][NewsNext]_vars

\* ====================================================== the bulk fetch
\* What a provider call or a fetch gave back is a record (a non-None dict).
IsRecord(outcome) == ~IsExc(outcome) /\ outcome.ok.py = "dict"

\* The ticker of a row of the collected table.
RowTicker(row) == IF row.py = "dict" THEN row.dict["Ticker"] ELSE PyNone

\* The rows of the table holding ticker t.
RowsOf(t) == {n \in 1..Len(all_stock_data) : RowTicker(all_stock_data[n]) = PyStr(t)}

\* The futures whose fetch_stock_data returned a record.
RecordFutures == {i \in Finished : IsRecord(futures[i].result)}

BannerPrinted == "Data Fetching Complete" \in Range(stdout)

LoadFailed ==
    \/ "ERROR could not find files" \in Range(stdout)
    \/ "An error occurred" \in Range(stdout)

\* C1: every fetch_stock_data call asks the primary provider first; a record
\* from the primary is the result and the fallback is not called; without a
\* record from the primary the fallback is called once, after it, and its
\* result is the result; with no record from either the result is None and the
\* ticker gets no row.
C1_PrimaryThenFallback ==
    \A i \in 1..Len(futures) :
        LET f == futures[i]
            n == Len(f.calls)
        IN /\ n <= 2
           /\ \A k \in 1..n : f.calls[k].ticker = f.ticker
           /\ n >= 1 => f.calls[1].provider = "yfinance"
           /\ n = 2 => f.calls[2].provider = "finviz" /\ ~IsRecord(f.calls[1].outcome)
           /\ f.st = "finished" => n >= 1
           /\ (n >= 1 /\ IsRecord(f.calls[1].outcome)) =>
                 f.st = "finished" /\ n = 1 /\ f.result = f.calls[1].outcome
           /\ (f.st = "finished" /\ n >= 1 /\ ~IsRecord(f.calls[1].outcome)) =>
                 n = 2 /\ f.result = f.calls[2].outcome
           /\ (f.st = "finished" /\ \A k \in 1..n : ~IsRecord(f.calls[k].outcome)) =>
                 /\ f.result = Ok(PyNone)
                 /\ RowsOf(f.ticker) = {}
                 /\ \A r \in 1..Len(csv.rows) : csv.rows[r]["Ticker"] # PyStr(f.ticker)

\* C1 witness: the run is over, one ticker went primary then fallback and was
\* skipped, another got its record from the primary alone.
C1_Witness ==
    /\ pc = "done"
    /\ \E i, j \in 1..Len(futures) :
         /\ Len(futures[i].calls) = 2
         /\ futures[i].result = Ok(PyNone)
         /\ Len(futures[j].calls) = 1
         /\ IsRecord(futures[j].result)
         /\ RowsOf(futures[j].ticker) # {}

\* C2: once the pool has drained, the table holds exactly one row for every
\* ticker whose fetch returned a record, that record, and none for any other
\* ticker; the rows written are the records returned, whatever the order of
\* completion.
C2_TableIsTheRecords ==
    pc \in {"complete", "done"} =>
        /\ Finished = 1..Len(futures)
        /\ Len(all_stock_data) = Cardinality(RecordFutures)
        /\ \A i \in 1..Len(futures) :
             IF i \in RecordFutures
             THEN /\ Cardinality(RowsOf(futures[i].ticker)) = 1
                  /\ \A n \in RowsOf(futures[i].ticker) :
                        all_stock_data[n] = futures[i].result.ok
             ELSE RowsOf(futures[i].ticker) = {}
        /\ csv.written =>
             Range(csv.rows) = {[k \in Columns |-> futures[i].result.ok.dict[k]] :
                                   i \in RecordFutures}

\* C2 witness: three fetches, two records and one None, collected in an order
\* other than the submission order, and written.
C2_Witness ==
    /\ pc = "done"
    /\ csv.written
    /\ Len(futures) = 3
    /\ Cardinality(RecordFutures) = 2
    /\ \E i, j \in RecordFutures :
         /\ i < j
         /\ \E n \in RowsOf(futures[i].ticker), m \in RowsOf(futures[j].ticker) : m < n

\* C3: a provider whose body raises gives None; no fetch_stock_data call ends
\* in an exception, so future.result() never raises and the run is never
\* aborted; at the end every future was seen by the loop and every record
\* returned is in the table.
C3_FailuresBecomeNone ==
    /\ pc # "crashed"
    /\ \A i \in 1..Len(futures) :
         /\ ~IsExc(futures[i].result)
         /\ \A k \in 1..Len(futures[i].calls) :
              futures[i].calls[k].raised => futures[i].calls[k].outcome = Ok(PyNone)
    /\ pc \in {"complete", "done"} =>
         /\ Len(futures) = Len(all_tickers)
         /\ yielded = 1..Len(futures)
         /\ \A i \in RecordFutures : futures[i].result.ok \in Range(all_stock_data)

\* C3 witness: both providers raised for one ticker, and the run still ended
\* with another ticker's record in the table.
C3_Witness ==
    /\ pc = "done"
    /\ \E i, j \in 1..Len(futures) :
         /\ Len(futures[i].calls) = 2
         /\ futures[i].calls[1].raised /\ futures[i].calls[2].raised
         /\ futures[i].result = Ok(PyNone)
         /\ j \in RecordFutures
         /\ futures[j].result.ok \in Range(all_stock_data)

\* C4: never more than max_workers fetch_stock_data calls in progress, and
\* every loaded ticker is submitted once: never twice, and once exactly when
\* the submitting is over; nothing else is submitted.
C4_BoundedPool ==
    /\ Cardinality(Running) <= max_workers
    /\ \A i \in 1..Len(futures) : futures[i].ticker \in Range(all_tickers)
    /\ \A t \in Range(all_tickers) :
         LET n == Cardinality({i \in 1..Len(futures) : futures[i].ticker = t})
         IN /\ n <= 1
            /\ pc \notin {"load", "submit"} => n = 1

\* C4 witness: the pool is full and a submitted ticker waits for a worker.
C4_Witness ==
    /\ Cardinality(Running) = max_workers
    /\ Pending # {}
    /\ Len(futures) = Len(all_tickers)

\* C5 as stated: the run over any ticker list reaches 'Data Fetching
\* Complete'; so a run that has ended has printed it.
C5_Original == pc = "done" => BannerPrinted

\* C5 amended: a run over a non-empty ticker list reaches 'Data Fetching
\* Complete'; when the banner is printed every loaded ticker was submitted and
\* every fetch has finished, and so it is whenever the file is written.
C5_NonEmptyRunCompletes ==
    /\ (all_tickers # <<>>) ~> BannerPrinted
    /\ [](BannerPrinted \/ csv.written =>
            /\ Len(futures) = Len(all_tickers)
            /\ Finished = 1..Len(futures)
            /\ BannerPrinted)

\* C5 witness: the file is written after three fetches finished.
C5_Witness ==
    /\ csv.written
    /\ BannerPrinted
    /\ Len(futures) = 3
    /\ Finished = 1..3

\* C6: a file is written only with at least one record collected; when the
\* ticker list could not be loaded nothing is submitted and nothing written;
\* when every fetch returned None nothing is written.
C6_NoEmptyFile ==
    /\ csv.written => all_stock_data # <<>> /\ csv.rows # <<>> /\ RecordFutures # {}
    /\ LoadFailed => futures = <<>> /\ ~csv.written /\ pc = "done"
    /\ all_tickers = <<>> => futures = <<>> /\ ~csv.written
    /\ (pc = "done" /\ RecordFutures = {}) => ~csv.written

\* C6 witness: fetches were made, every one returned None, and the run ended
\* without a file.
C6_Witness ==
    /\ pc = "done"
    /\ Len(futures) >= 2
    /\ RecordFutures = {}
    /\ ~csv.written
    /\ "No stocks with valid short squeeze data" \in Range(stdout)

\* ================================================== the live analyzer
\* The lookups that returned a record.
GoodLookups == SelectSeq(lookups, LAMBDA c : IsRecord(c.result))

\* C7: a lookup is made only with the master list and the peer group loaded
\* and for an entry that, trimmed and upper-cased, is in the master set and is
\* neither empty nor QUIT/EXIT; a score is computed only for a lookup that
\* returned a record.
C7_LookupOnlyWhenValidated ==
    /\ (lpc \in {"lookup", "score"} \/ lookups # <<>>) =>
          master_ticker_set.loaded /\ peer_group.loaded
    /\ lpc \in {"lookup", "score"} =>
          ticker \in master_ticker_set.set /\ ticker \notin {<<>>, QUIT, EXIT}
    /\ Len(lookups) <= prompts
    /\ \A n \in 1..Len(lookups) :
          /\ lookups[n].ticker \in master_ticker_set.set
          /\ lookups[n].ticker \notin {<<>>, QUIT, EXIT}
          /\ StrUpper(Strip(lookups[n].ticker)) = lookups[n].ticker
    /\ lpc = "score" => IsRecord(Ok(live_data)) /\ lookups[Len(lookups)].ticker = ticker
    /\ Len(scores) = IF lpc = "score" THEN Len(GoodLookups) - 1 ELSE Len(GoodLookups)
    /\ \A n \in 1..Len(scores) : scores[n].ticker = GoodLookups[n].ticker

\* C7 witness: two entries, one turned away and one looked up and scored
\* against a peer group.
C7_Witness ==
    /\ lpc = "prompt"
    /\ prompts = 2
    /\ Len(lookups) = 1
    /\ Len(scores) = 1
    /\ peer_group.rows # <<>>
    /\ "SqueezeScore" \in DOMAIN live_data.dict

\* ================================================= the news aggregator
\* The place of the first x in l.
FirstIndex(l, x) == CHOOSE i \in 1..Len(l) : l[i] = x /\ \A j \in 1..(i - 1) : l[j] # x

\* C8: get_all_news returns every headline of either source once, in the order
\* of first occurrence in MarketAux's list followed by Google's, and nothing
\* else; a source that failed gave the empty list.
C8_NewsIsTheUnion ==
    /\ marketaux_task.raised => marketaux_task.headlines = <<>>
    /\ google_task.raised => google_task.headlines = <<>>
    /\ npc = "done" =>
         LET all == marketaux_task.headlines \o google_task.headlines
         IN /\ Range(news) = Range(all)
            /\ \A i, j \in 1..Len(news) : i < j =>
                  /\ news[i] # news[j]
                  /\ FirstIndex(all, news[i]) < FirstIndex(all, news[j])

\* C8 witness: both sources gave headlines, one of them in common, and the
\* result is shorter than the two lists together.
C8_Witness ==
    /\ npc = "done"
    /\ marketaux_task.headlines # <<>>
    /\ google_task.headlines # <<>>
    /\ Range(marketaux_task.headlines) \cap Range(google_task.headlines) # {}
    /\ Range(google_task.headlines) \ Range(marketaux_task.headlines) # {}
    /\ Len(news) < Len(marketaux_task.headlines) + Len(google_task.headlines)

\* ================================== the two fetch_stock_data functions
\* The info dict of the response lacks the field or holds None for it.
Missing(info, k) == k \notin DOMAIN info \/ IsNone(info[k])

\* The page shows, next to the label, one of the texts.
PageShows(rows, label, texts) ==
    \E r \in 1..Len(rows) : \E i \in 1..(Len(rows[r]) - 1) :
        Strip(rows[r][i]) = label /\ Strip(rows[r][i + 1]) \in texts

\* The acceptance rule of the claim, of one run of fetch_stock_data.
Rejects(run) ==
    /\ ( /\ ~fetch_in.yresp.raises
         /\ \/ Missing(fetch_in.yresp.info, "shortPercentOfFloat")
            \/ Missing(fetch_in.yresp.info, "floatShares")
            \/ fetch_in.yresp.info["floatShares"] = PyNum(0) ) =>
          run.calls[1].outcome = Ok(PyNone)
    /\ ( /\ Len(run.calls) = 2
         /\ \/ PageShows(fetch_in.fresp.rows, <<"Short Float">>, {<<"0">>, <<"-">>})
            \/ PageShows(fetch_in.fresp.rows, <<"Shs Float">>, {<<"0">>, <<"-">>}) ) =>
          run.calls[2].outcome = Ok(PyNone)

\* C9: on the same ticker and the same responses the two fetch_stock_data
\* functions make the same provider calls in the same order and return the
\* same record or None, each by the acceptance rule of the claim.
C9_SameFetch ==
    /\ bulk_run.st = "finished" => Rejects(bulk_run)
    /\ live_run.st = "finished" => Rejects(live_run)
    /\ (bulk_run.st = "finished" /\ live_run.st = "finished") =>
          /\ bulk_run.calls = live_run.calls
          /\ bulk_run.result = live_run.result

\* C9 witness: both functions have run on a response the primary accepts and
\* both returned a record.
C9_Witness ==
    /\ bulk_run.st = "finished"
    /\ live_run.st = "finished"
    /\ IsRecord(bulk_run.result)
    /\ IsRecord(live_run.result)
====
